---- MODULE Spec2Model ----
(***************************************************************************)
(* Model of internal/HtmlModification.js: applying stored option values to *)
(* the widgets of an options page and reading them back, with the          *)
(* remembered-options cache of option groups.                              *)
(*                                                                         *)
(* JavaScript values are encoded as tagged strings so that values of       *)
(* different types can be compared: "bool:true", "num:1", "str:1", "null", *)
(* "undefined".  A property whose value is "undefined" is an absent key.   *)
(***************************************************************************)
EXTENDS Integers, Sequences, FiniteSets, TLC

VARIABLES page, defaultOptionGetter, rememberedOptions, elements,
          appliedGroups, lastSet, ret

\* page                the widgets of the document the calls work on
\* defaultOptionGetter the registered default provider, null or undefined
\* rememberedOptions   the cache of group objects, undefined before a reset
\* elements            the state of every widget
\* appliedGroups       the groups Apply was called for since the last reset
\* lastSet             the argument of the last setDefaultOptionProvider call
\* ret                 what the last call returned or raised
vars == <<page, defaultOptionGetter, rememberedOptions, elements,
          appliedGroups, lastSet, ret>>

----------------------------------------------------------------------------
\* Bounds

\* number of <input type="radio"> children of the radio group
NChilds == 2

----------------------------------------------------------------------------
\* JavaScript values

Undefined == "undefined"
Null == "null"
True == "bool:true"
False == "bool:false"

\* elOption.value = v: the value slot of a form control holds text
ToDOMString(v) ==
    CASE v = "num:1" -> "str:1"
      [] v = "num:2" -> "str:2"
      [] v = "num:0" -> "str:0"
      [] v = "num:NaN" -> "str:NaN"
      [] v = True -> "str:true"
      [] v = False -> "str:false"
      [] v = Null -> "str:"
      [] v = Undefined -> "str:undefined"
      [] OTHER -> v

\* a numeric read that forgets the conversion
ToNumberRaw(s) == s

\* Number(elOption.value)
ToNumber(s) ==
    CASE s = "str:1" -> "num:1"
      [] s = "str:2" -> "num:2"
      [] s = "str:0" -> "num:0"
      [] s = "str:" -> "num:0"
      [] OTHER -> "num:NaN"

----------------------------------------------------------------------------
\* The widgets.  An options page (the document) shows some of them: one
\* page has the numeric widget a of group G, whose other member b has no
\* widget; one has the checkbox c and the radio group r of group H, in this
\* order; one has the ungrouped text field u.  Two more pages show option u
\* with other widgets: a range slider, and a radio group whose wrapper is
\* named u while its children are named r.  Two pages mix groups: widget a
\* of group G with checkbox c of group H, and widget a with the ungrouped
\* text field u.

Options == {"a", "b", "c", "r", "u"}
Groups == {"G", "H"}
NoGroup == "nogroup"

Elements == {"elA", "elC", "elR", "elU", "elS", "elQ"}
DocumentOrder == <<"elA", "elC", "elR", "elU", "elS", "elQ">>
Pages == {{"elA"}, {"elC", "elR"}, {"elU"}, {"elS"}, {"elQ"},
          {"elA", "elC"}, {"elA", "elU"}}

\* elOption.getAttribute("type") || elOption.getAttribute("data-type")
ElementType(el) ==
    CASE el = "elA" -> "number"
      [] el = "elC" -> "checkbox"
      [] el = "elR" -> "radiogroup"
      [] el = "elU" -> "text"
      [] el = "elS" -> "range"
      [] el = "elQ" -> "radiogroup"

\* elOption.getAttribute("name") || elOption.dataset.name
ElementName(el) ==
    CASE el = "elA" -> "a"
      [] el = "elC" -> "c"
      [] el = "elR" -> "r"
      [] el = "elU" -> "u"
      [] el = "elS" -> "u"
      [] el = "elQ" -> "u"

\* elOption.dataset.optiongroup; NoGroup when the widget has none, which
\* the caller passes to Apply as a null group
ElementGroup(el) ==
    CASE el = "elA" -> "G"
      [] el = "elC" -> "H"
      [] el = "elR" -> "H"
      [] el = "elU" -> NoGroup
      [] el = "elS" -> NoGroup
      [] el = "elQ" -> NoGroup

\* the <input type="radio"> children of the radio group, in document
\* order, their value attributes and their name
RadioChilds == 1..NChilds
NoChild == 0
RadioValue(i) ==
    IF i = 1 THEN "str:x" ELSE IF i = 2 THEN "str:y" ELSE "str:z"
RadioName(i) == "r"

\* an object keyed by option ids, from the listed own properties
Obj(f) == [o \in Options |-> IF o \in DOMAIN f THEN f[o] ELSE Undefined]
EmptyObj == [o \in Options |-> Undefined]
Present(members) == [present |-> TRUE, members |-> members]
Absent == [present |-> FALSE, members |-> EmptyObj]

\* loaded value maps the storage backend may supply: top-level option keys
\* and group keys holding the group's own map
LoadedMaps ==
    { \* nothing stored
      [top |-> EmptyObj, grp |-> [g \in Groups |-> Absent]],
      \* everything stored
      [top |-> Obj("u" :> "str:x"),
       grp |-> ("G" :> Present(Obj("a" :> "num:1" @@ "b" :> "str:x")) @@
                "H" :> Present(Obj("c" :> True @@ "r" :> "str:x")))],
      \* everything stored, other values
      [top |-> Obj("u" :> "str:y"),
       grp |-> ("G" :> Present(Obj("a" :> "num:2" @@ "b" :> "str:y")) @@
                "H" :> Present(Obj("c" :> Null @@ "r" :> "str:y")))],
      \* group present but member a missing; values of the wrong type
      [top |-> Obj("u" :> "num:1"),
       grp |-> ("G" :> Present(Obj("b" :> "str:x")) @@
                "H" :> Present(Obj("c" :> False @@ "r" :> "num:1")))],
      \* option ids a and c at top level, no group key G; r missing in H
      [top |-> Obj("a" :> "num:1" @@ "u" :> True),
       grp |-> ("G" :> Absent @@
                "H" :> Present(Obj("c" :> "str:x")))] }

\* the default providers a caller may register: one knows every id, one
\* knows group G without its member a and nothing else
Providers == {"pFull", "pPart"}

\* defaultOptionGetter(id) for an option id: a value or undefined
ProviderOption(p, option) ==
    IF p = "pFull" /\ option = "u" THEN "str:y" ELSE Undefined

\* defaultOptionGetter(id) for a group id: the group's map or undefined
ProviderGroup(p, g) ==
    CASE p = "pFull" /\ g = "G" -> Present(Obj("a" :> "num:2" @@ "b" :> "str:y"))
      [] p = "pFull" /\ g = "H" -> Present(Obj("c" :> True @@ "r" :> "str:y"))
      [] p = "pPart" /\ g = "G" -> Present(Obj("b" :> "str:y"))
      [] OTHER -> Absent

----------------------------------------------------------------------------
\* State

\* rememberedOptions is undefined until the first reset; afterwards it maps
\* a group id to a group object.  An entry is the very object the caller
\* passed to Apply inside its loaded map (a reference, not a copy), so the
\* members kept here are the members of the caller's object.
UndefinedCache == [defined |-> FALSE, entries |-> [g \in Groups |-> Absent]]
EmptyCache == [defined |-> TRUE, entries |-> [g \in Groups |-> Absent]]

\* a widget: its value slot, the checked/indeterminate flags of a checkbox,
\* the checked attribute of each radio child and the selectedElement marker
InitElement ==
    [value |-> "str:", checked |-> FALSE, indeterminate |-> FALSE,
     childChecked |-> [i \in RadioChilds |-> FALSE], selectedElement |-> NoChild]

\* what the last call returned or raised: the operation (isReady, apply or
\* extract; none after a call that returns nothing and cannot fail), the
\* widget, the useDatagroup flag, the status ("ok" or the error) and the
\* returned id with its scalar value or group aggregate
NoRet == [op |-> "none", el |-> "", useGroup |-> FALSE, status |-> "ok",
          id |-> "", value |-> Undefined, agg |-> EmptyObj]
Raised(err) == [NoRet EXCEPT !.status = err]
Returned(id, v) == [NoRet EXCEPT !.id = id, !.value = v]
ReturnedGroup(g, agg) == [NoRet EXCEPT !.id = g, !.agg = agg]
Of(op, elOption, useGroup, r) ==
    [r EXCEPT !.op = op, !.el = elOption, !.useGroup = useGroup]

Init ==
    /\ page \in Pages
    /\ defaultOptionGetter = Undefined
    /\ rememberedOptions = UndefinedCache
    /\ elements = [el \in Elements |-> InitElement]
    /\ appliedGroups = {}
    /\ lastSet = "never"
    /\ ret = NoRet

----------------------------------------------------------------------------
\* a reset that defines the cache but keeps its entries
ResetKeepsEntries(cache) == [cache EXCEPT !.defined = TRUE]

\* resetRememberedOptions(): rememberedOptions = {}
ResetCache(cache) == EmptyCache

resetRememberedOptions ==
    /\ rememberedOptions' = ResetCache(rememberedOptions)
    /\ appliedGroups' = {}
    /\ ret' = NoRet
    /\ UNCHANGED <<page, defaultOptionGetter, elements, lastSet>>

\* setDefaultOptionProvider(cb): defaultOptionGetter = cb
SetGetter(defaultOptionCallback) == defaultOptionCallback

setDefaultOptionProvider(defaultOptionCallback) ==
    /\ defaultOptionGetter' = SetGetter(defaultOptionCallback)
    /\ lastSet' = defaultOptionCallback
    /\ ret' = NoRet
    /\ UNCHANGED <<page, rememberedOptions, elements, appliedGroups>>

\* a readiness check with == in place of ===: null fails as well
IsReadyLoose(getter) ==
    IF getter \in {Undefined, Null} THEN Raised("ConfigError")
    ELSE Returned("", True)

\* isReady(): throws while defaultOptionGetter === undefined, else true
IsReadyResult(getter) ==
    IF getter = Undefined THEN Raised("ConfigError") ELSE Returned("", True)

isReady ==
    /\ ret' = Of("isReady", "", FALSE, IsReadyResult(defaultOptionGetter))
    /\ UNCHANGED <<page, defaultOptionGetter, rememberedOptions, elements,
                   appliedGroups, lastSet>>

----------------------------------------------------------------------------
\* applyOptionToElement(option, optionGroup, elOption, optionValues)

\* optionValues.hasOwnProperty(key); a null group is no key of the map
HasOwnProperty(ov, key) ==
    CASE key \in Options -> ov.top[key] # Undefined
      [] key \in Groups -> ov.grp[key].present
      [] OTHER -> FALSE

\* how the value lookup ends: "written" with the value to write,
\* "skipped" (the return of line 115) or "TypeError"; remember tells
\* whether lines 126-128 are reached
Resolved(v, viaDefault, remember) ==
    [outcome |-> IF viaDefault /\ v = Undefined THEN "skipped" ELSE "written",
     value |-> v, viaDefault |-> viaDefault, remember |-> remember]
Throws == [outcome |-> "TypeError", value |-> Undefined,
           viaDefault |-> FALSE, remember |-> FALSE]

\* lines 102-116: the value from the default provider; undefined means
\* "do not set the option"
DefaultValue(getter, option, optionGroup) ==
    IF getter = Null THEN Resolved(Undefined, TRUE, FALSE)
    ELSE IF getter = Undefined THEN Throws
    ELSE IF optionGroup = NoGroup
         THEN Resolved(ProviderOption(getter, option), TRUE, FALSE)
         ELSE LET d == ProviderGroup(getter, optionGroup)
              IN  IF d.present THEN Resolved(d.members[option], TRUE, FALSE)
                  ELSE Throws

\* lines 119-129: the value from the loaded map; a grouped option reads
\* optionValues[optionGroup][option] and then looks at rememberedOptions
StoredValue(ov, option, optionGroup, cache) ==
    IF optionGroup = NoGroup THEN Resolved(ov.top[option], FALSE, FALSE)
    ELSE IF ~ov.grp[optionGroup].present THEN Throws
    ELSE IF ~cache.defined THEN Throws
    ELSE Resolved(ov.grp[optionGroup].members[option], FALSE, TRUE)

\* lines 101-130
ResolveValue(getter, ov, option, optionGroup, cache) ==
    IF ~HasOwnProperty(ov, option) /\ ~HasOwnProperty(ov, optionGroup)
    THEN DefaultValue(getter, option, optionGroup)
    ELSE StoredValue(ov, option, optionGroup, cache)

\* an Apply that never remembers the group's object
RememberNothing(cache, optionGroup, allOptionsInGroup) == cache

\* an Apply that remembers the object under every group id without entry
RememberEverywhere(cache, optionGroup, allOptionsInGroup) ==
    [cache EXCEPT !.entries =
        [g \in Groups |-> IF cache.entries[g].present THEN cache.entries[g]
                          ELSE allOptionsInGroup]]

\* lines 126-128: remember the group's object unless one is remembered
Remember(cache, optionGroup, allOptionsInGroup) ==
    IF ~cache.entries[optionGroup].present
    THEN [cache EXCEPT !.entries[optionGroup] = allOptionsInGroup]
    ELSE cache

\* a checkbox write that checks the box for every truthy value
ApplyCheckboxTruthy(e, optionValue) ==
    IF optionValue = Null
    THEN [e EXCEPT !.indeterminate = TRUE]
    ELSE [e EXCEPT !.checked = (optionValue \notin {False, Undefined})]

\* lines 134-140
ApplyCheckbox(e, optionValue) ==
    IF optionValue = Null
    THEN [e EXCEPT !.indeterminate = TRUE]
    ELSE [e EXCEPT !.checked = (optionValue = True)]

\* lines 141-151
ApplyRadiogroup(e, optionValue) ==
    [e EXCEPT !.childChecked =
        [i \in RadioChilds |-> e.childChecked[i] \/ RadioValue(i) = optionValue]]

\* lines 152-154
ApplyValue(e, optionValue) == [e EXCEPT !.value = ToDOMString(optionValue)]

\* lines 133-155
WriteElement(e, type, optionValue) ==
    CASE type = "checkbox" -> ApplyCheckbox(e, optionValue)
      [] type = "radiogroup" -> ApplyRadiogroup(e, optionValue)
      [] OTHER -> ApplyValue(e, optionValue)

applyOptionToElement(option, optionGroup, elOption, ov) ==
    LET r == ResolveValue(defaultOptionGetter, ov, option, optionGroup,
                          rememberedOptions)
    IN  /\ rememberedOptions' =
              IF r.remember
              THEN Remember(rememberedOptions, optionGroup, ov.grp[optionGroup])
              ELSE rememberedOptions
        /\ elements' =
              IF r.outcome = "written"
              THEN [elements EXCEPT ![elOption] =
                        WriteElement(@, ElementType(elOption), r.value)]
              ELSE elements
        /\ appliedGroups' = appliedGroups \cup (Groups \cap {optionGroup})
        /\ ret' = Of("apply", elOption, FALSE,
                     IF r.outcome = "TypeError" THEN Raised("TypeError")
                     ELSE NoRet)
        /\ UNCHANGED <<page, defaultOptionGetter, lastSet>>

\* the caller applies a freshly loaded map to a widget of the page, under
\* the widget's own option id and group
Apply(elOption, ov) ==
    /\ elOption \in page
    /\ applyOptionToElement(ElementName(elOption), ElementGroup(elOption),
                            elOption, ov)

----------------------------------------------------------------------------
\* Extraction

\* a scan that falls back to the first child when none is checked
FirstCheckedOrFirst(e) ==
    IF \E i \in RadioChilds : e.childChecked[i]
    THEN CHOOSE i \in RadioChilds :
            /\ e.childChecked[i]
            /\ \A j \in RadioChilds : e.childChecked[j] => i <= j
    ELSE 1

\* lines 173-180: the first child with the checked attribute, NoChild
\* when there is none
FirstChecked(e) ==
    IF \E i \in RadioChilds : e.childChecked[i]
    THEN CHOOSE i \in RadioChilds :
            /\ e.childChecked[i]
            /\ \A j \in RadioChilds : e.childChecked[j] => i <= j
    ELSE NoChild

\* a getSelectedFromRadioGroup that scans the children before it looks at
\* the marker
SelectedScanFirst(e) ==
    IF FirstChecked(e) # NoChild THEN FirstChecked(e) ELSE e.selectedElement

\* getSelectedFromRadioGroup(elOption): the selectedElement marker if the
\* widget has one, else the first checked child; NoChild stands for the
\* thrown "no radio element is selected"
getSelectedFromRadioGroup(e) ==
    IF e.selectedElement # NoChild THEN e.selectedElement ELSE FirstChecked(e)

\* getOptionIdFromElement(elOption)
getOptionIdFromElement(elOption) == ElementName(elOption)

\* lines 212-218
ExtractCheckbox(e) ==
    IF e.indeterminate THEN Null ELSE IF e.checked THEN True ELSE False

\* getIdAndOptionFromElement(elOption)
getIdAndOptionFromElement(elOption, e) ==
    LET type == ElementType(elOption)
    IN  CASE type = "checkbox" ->
                Returned(getOptionIdFromElement(elOption), ExtractCheckbox(e))
          [] type = "radiogroup" ->
                LET elSelected == getSelectedFromRadioGroup(e)
                IN  IF elSelected = NoChild THEN Raised("SelectionError")
                    ELSE Returned(RadioName(elSelected), RadioValue(elSelected))
          [] type \in {"number", "range"} ->
                Returned(getOptionIdFromElement(elOption), ToNumber(e.value))
          [] OTHER ->
                Returned(getOptionIdFromElement(elOption), e.value)

\* a query that finds only the first widget of the group
FirstGroupElement(doc, optionGroup) ==
    SubSeq(SelectSeq(DocumentOrder,
                     LAMBDA el : el \in doc /\ ElementGroup(el) = optionGroup),
           1, 1)

\* document.querySelectorAll(`[data-optiongroup=${optionGroup}]`): the
\* widgets of the group on the page, in document order
GroupElements(doc, optionGroup) ==
    SelectSeq(DocumentOrder,
              LAMBDA el : el \in doc /\ ElementGroup(el) = optionGroup)

\* lines 268-271: extract each widget of the group in turn and write its
\* pair into the aggregate; an exception ends the loop where it is raised
RECURSIVE ScanGroup(_, _, _)
ScanGroup(els, optionValue, es) ==
    IF els = <<>> THEN [status |-> "ok", agg |-> optionValue]
    ELSE LET r == getIdAndOptionFromElement(Head(els), es[Head(els)])
         IN  IF r.status # "ok"
             THEN [status |-> r.status, agg |-> optionValue]
             ELSE ScanGroup(Tail(els), [optionValue EXCEPT ![r.id] = r.value], es)

\* lines 261-266: the aggregate is the remembered object itself, or a new
\* empty object
SeedAggregate(cache, optionGroup) ==
    IF cache.entries[optionGroup].present
    THEN cache.entries[optionGroup].members
    ELSE EmptyObj

\* an extraction that also remembers an aggregate it started empty
CacheAlwaysAfterScan(cache, optionGroup, agg) ==
    [cache EXCEPT !.entries[optionGroup] = Present(agg)]

\* lines 268-271 on the cache: the loop writes into the aggregate, which is
\* the remembered object when there is one
CacheAfterScan(cache, optionGroup, agg) ==
    IF cache.entries[optionGroup].present
    THEN [cache EXCEPT !.entries[optionGroup].members = agg]
    ELSE cache

\* getIdAndOptionsFromElement(elOption, useDatagroup) as a function of the
\* state: what it returns or raises, and the cache it leaves
ExtractFrom(elOption, useDatagroup, doc, cache, es) ==
    LET optionGroup == ElementGroup(elOption)
    IN  IF useDatagroup /\ optionGroup # NoGroup
        THEN IF ~cache.defined
             THEN [ret |-> Raised("TypeError"), cache |-> cache]
             ELSE LET scan == ScanGroup(GroupElements(doc, optionGroup),
                                        SeedAggregate(cache, optionGroup), es)
                  IN  [ret |-> IF scan.status = "ok"
                               THEN ReturnedGroup(optionGroup, scan.agg)
                               ELSE Raised(scan.status),
                       cache |-> CacheAfterScan(cache, optionGroup, scan.agg)]
        ELSE [ret |-> getIdAndOptionFromElement(elOption, es[elOption]),
              cache |-> cache]

getIdAndOptionsFromElement(elOption, useDatagroup) ==
    LET x == ExtractFrom(elOption, useDatagroup, page, rememberedOptions,
                         elements)
    IN  /\ elOption \in page
        /\ ret' = Of("extract", elOption, useDatagroup, x.ret)
        /\ rememberedOptions' = x.cache
        /\ UNCHANGED <<page, defaultOptionGetter, elements, appliedGroups,
                       lastSet>>

----------------------------------------------------------------------------
\* The widget layer records the radio child the user picked in the
\* wrapper's selectedElement property.
SelectRadio(elOption, i) ==
    /\ elOption \in page
    /\ ElementType(elOption) = "radiogroup"
    /\ elements' = [elements EXCEPT ![elOption].selectedElement = i]
    /\ ret' = NoRet
    /\ UNCHANGED <<page, defaultOptionGetter, rememberedOptions,
                   appliedGroups, lastSet>>

----------------------------------------------------------------------------
Next ==
    \/ resetRememberedOptions
    \/ \E cb \in Providers \cup {Null, Undefined} : setDefaultOptionProvider(cb)
    \/ isReady
    \/ \E el \in Elements, ov \in LoadedMaps : Apply(el, ov)
    \/ \E el \in Elements, g \in BOOLEAN : getIdAndOptionsFromElement(el, g)
    \/ \E el \in Elements, i \in RadioChilds : SelectRadio(el, i)

Spec == Init /\ [][Next]_vars

----------------------------------------------------------------------------
\* Vocabulary of the properties

Entry(g) == rememberedOptions.entries[g]

\* the step is the call Apply(el, ov) (the result of the call names the
\* operation and the widget)
ApplyStep(el, ov) == ret'.op = "apply" /\ ret'.el = el /\ Apply(el, ov)

\* the step is the call getIdAndOptionsFromElement(el, useGroup)
ExtractStep(el, useGroup) ==
    /\ ret'.op = "extract" /\ ret'.el = el /\ ret'.useGroup = useGroup
    /\ getIdAndOptionsFromElement(el, useGroup)

\* the group object of the loaded map that was passed to the Apply which
\* created the entry of group g: line 127 stores that object itself, so it
\* is the object the entry holds
PassedGroupObject(cache, g) == cache.entries[g]

\* the lookup an Apply of the loaded map ov on widget el performs
Lookup(el, ov) ==
    ResolveValue(defaultOptionGetter, ov, ElementName(el), ElementGroup(el),
                 rememberedOptions)

\* the option of widget el is stored in the loaded map ov
StoredIn(el, ov) ==
    IF ElementGroup(el) = NoGroup
    THEN ov.top[ElementName(el)] # Undefined
    ELSE /\ ov.grp[ElementGroup(el)].present
         /\ ov.grp[ElementGroup(el)].members[ElementName(el)] # Undefined

\* v is a value of the kind the widget type stands for
WellTyped(type, v) ==
    CASE type = "checkbox" -> v \in {True, False, Null}
      [] type = "radiogroup" -> \E i \in RadioChilds : RadioValue(i) = v
      [] type \in {"number", "range"} -> v \in {"num:1", "num:2"}
      [] OTHER -> v \in {"str:x", "str:y"}

\* the id/value pairs of the live widgets of group g, as an aggregate
LivePairs(g) ==
    [k \in Options |->
        IF \E el \in page : /\ ElementGroup(el) = g
                            /\ getIdAndOptionFromElement(el, elements[el]).id = k
        THEN LET el == CHOOSE el \in page :
                          /\ ElementGroup(el) = g
                          /\ getIdAndOptionFromElement(el, elements[el]).id = k
             IN  getIdAndOptionFromElement(el, elements[el]).value
        ELSE Undefined]

\* the options of group g that have a live widget
LiveOptions(g) == {ElementName(el) : el \in {e \in page : ElementGroup(e) = g}}

----------------------------------------------------------------------------
\* C1 - Group round trip.  When the cache holds no entry for group G and an
\* Apply writes member a of G from a loaded map into a's widget, the only
\* live widget of G, a group extraction on that widget right afterwards
\* returns G with an aggregate in which every member without a live widget
\* has its loaded value, and a, a number on a numeric widget, has the number
\* that was applied: {a: 1, b: "x"} comes back as {a: 1, b: "x"}.
C1_GroupRoundTrip ==
    [][\A el \in Elements, ov \in LoadedMaps :
         LET g == ElementGroup(el)
             x == ExtractFrom(el, TRUE, page, rememberedOptions', elements')
         IN  ( /\ ApplyStep(el, ov)
               /\ g # NoGroup
               /\ rememberedOptions.defined /\ ~Entry(g).present
               /\ ov.grp[g].present
               /\ LiveOptions(g) = {ElementName(el)} )
             => /\ x.ret.status = "ok"
                /\ x.ret.id = g
                /\ \A k \in Options \ {ElementName(el)} :
                      x.ret.agg[k] = ov.grp[g].members[k]
                /\ ( /\ ElementType(el) \in {"number", "range"}
                     /\ WellTyped(ElementType(el),
                                  ov.grp[g].members[ElementName(el)]) )
                      => x.ret.agg[ElementName(el)] =
                             ov.grp[g].members[ElementName(el)]]_vars

\* a group extraction on a's widget has returned (G, {a: 1, b: "x"}) with
\* only a's widget on the page
C1_Witness ==
    /\ ret.op = "extract" /\ ret.el = "elA" /\ ret.useGroup
    /\ ret.status = "ok" /\ ret.id = "G"
    /\ ret.agg = Obj("a" :> "num:1" @@ "b" :> "str:x")
    /\ elements["elA"].value = "str:1"
    /\ page = {"elA"}

----------------------------------------------------------------------------
\* C2 - Apply/Extract round trip.  For every widget kind, every option
\* stored in the loaded map with a value of the widget's kind and every
\* widget state that earlier Apply calls produced, an Apply followed at once
\* by a single-widget extraction returns the value that was applied.
C2_ApplyExtractRoundTrip ==
    [][\A el \in Elements, ov \in LoadedMaps :
         ( /\ ApplyStep(el, ov)
           /\ StoredIn(el, ov)
           /\ Lookup(el, ov).outcome = "written"
           /\ WellTyped(ElementType(el), Lookup(el, ov).value)
           /\ elements[el].selectedElement = NoChild )
         => LET x == ExtractFrom(el, FALSE, page, rememberedOptions', elements')
            IN  /\ x.ret.status = "ok"
                /\ x.ret.value = Lookup(el, ov).value]_vars

----------------------------------------------------------------------------
\* C3 - After a reset, a group extraction of group G that succeeds before
\* any Apply has named G returns an aggregate made of exactly the id/value
\* pairs of the live widgets of G: nothing remembered before the reset is
\* in it.
C3_ExtractAfterReset ==
    ( /\ ret.op = "extract" /\ ret.useGroup /\ ret.status = "ok"
      /\ ElementGroup(ret.el) # NoGroup
      /\ rememberedOptions.defined
      /\ ElementGroup(ret.el) \notin appliedGroups )
    => /\ ret.id = ElementGroup(ret.el)
       /\ ret.agg = LivePairs(ElementGroup(ret.el))

\* group G was extracted after a reset with no Apply since: the aggregate
\* has the live value of a and no member b
C3_Witness ==
    /\ ret.op = "extract" /\ ret.el = "elA" /\ ret.useGroup
    /\ ret.status = "ok"
    /\ rememberedOptions.defined /\ "G" \notin appliedGroups
    /\ elements["elA"].value = "str:1"
    /\ ret.agg = Obj("a" :> "num:1")

----------------------------------------------------------------------------
\* an Apply or a group extraction that names group g and completes
C4_Touches(g) ==
    \/ \E el \in Elements, ov \in LoadedMaps :
          /\ ApplyStep(el, ov) /\ ElementGroup(el) = g
          /\ Lookup(el, ov).outcome = "written"
    \/ \E el \in Elements :
          /\ ExtractStep(el, TRUE) /\ ElementGroup(el) = g
          /\ ret'.status = "ok"

\* an Apply for group g that finds its value in the loaded map
C4_StoredApply(g) ==
    \E el \in Elements, ov \in LoadedMaps :
        /\ ApplyStep(el, ov) /\ ElementGroup(el) = g
        /\ ~Lookup(el, ov).viaDefault
        /\ Lookup(el, ov).outcome = "written"

----------------------------------------------------------------------------
\* the provider is disabled, or has no default for the id Apply asks about
\* (the option id of an ungrouped option, the group id of a grouped one)
C5_NoDefault(el) ==
    \/ defaultOptionGetter = Null
    \/ /\ defaultOptionGetter \in Providers
       /\ IF ElementGroup(el) = NoGroup
          THEN ProviderOption(defaultOptionGetter, ElementName(el)) = Undefined
          ELSE ~ProviderGroup(defaultOptionGetter, ElementGroup(el)).present

\* C5 - Silent skip.  When neither the option id nor the group id is a key
\* of the loaded map and the provider is disabled or has no default for the
\* id it is asked about, Apply returns without raising and leaves the
\* widget as it was, for ungrouped and for grouped options.
C5_SilentSkip ==
    [][\A el \in Elements, ov \in LoadedMaps :
         ( /\ ApplyStep(el, ov)
           /\ ~HasOwnProperty(ov, ElementName(el))
           /\ ~HasOwnProperty(ov, ElementGroup(el))
           /\ C5_NoDefault(el) )
         => /\ ret'.status = "ok"
            /\ elements' = elements]_vars

----------------------------------------------------------------------------
\* C6 - Apply never raises because of the stored data.  With the cache
\* reset and a provider set (a function or null), Apply completes without
\* an exception for every loaded map and every value.
C6_ApplyNeverRaises ==
    [][\A el \in Elements, ov \in LoadedMaps :
         ( /\ ApplyStep(el, ov)
           /\ rememberedOptions.defined
           /\ defaultOptionGetter \in Providers \cup {Null} )
         => ret'.status = "ok"]_vars

----------------------------------------------------------------------------
\* the default the provider has for the option of widget el, or undefined
C7_Default(el) ==
    IF defaultOptionGetter \notin Providers THEN Undefined
    ELSE IF ElementGroup(el) = NoGroup
         THEN ProviderOption(defaultOptionGetter, ElementName(el))
         ELSE LET d == ProviderGroup(defaultOptionGetter, ElementGroup(el))
              IN  IF d.present THEN d.members[ElementName(el)] ELSE Undefined

\* C7 - Default fallback.  When the option is absent from the loaded map
\* (a grouped option: absent at top level and absent inside the group's
\* stored map) and the provider has a defined default for it, Apply writes
\* that default into the widget as it would write a stored value.
C7_DefaultFallback ==
    [][\A el \in Elements, ov \in LoadedMaps :
         ( /\ ApplyStep(el, ov)
           /\ rememberedOptions.defined
           /\ ~HasOwnProperty(ov, ElementName(el))
           /\ ~StoredIn(el, ov)
           /\ C7_Default(el) # Undefined )
         => /\ ret'.status = "ok"
            /\ elements'[el] =
                  WriteElement(elements[el], ElementType(el), C7_Default(el))]_vars

----------------------------------------------------------------------------
\* C8 - isReady() raises the configuration error when no provider was ever
\* set or the last setDefaultOptionProvider call passed undefined, returns
\* true when the last call passed a function or null, and changes nothing.
C8_IsReady ==
    /\ [](ret.op = "isReady" =>
             IF lastSet \in {"never", Undefined}
             THEN ret.status = "ConfigError"
             ELSE ret.status = "ok" /\ ret.value = True)
    /\ [][ret'.op = "isReady" =>
             UNCHANGED <<defaultOptionGetter, rememberedOptions, elements>>]_vars

\* isReady() has returned true after setDefaultOptionProvider(null)
C8_Witness ==
    /\ ret.op = "isReady" /\ ret.status = "ok" /\ ret.value = True
    /\ lastSet = Null

----------------------------------------------------------------------------
\* the radio group has no selectedElement marker and no checked child
C9_NothingSelected(e) ==
    /\ e.selectedElement = NoChild
    /\ \A i \in RadioChilds : ~e.childChecked[i]

\* the widgets an extraction on el reads
C9_Scanned(el, useGroup) ==
    IF useGroup /\ ElementGroup(el) # NoGroup
    THEN {e \in page : ElementGroup(e) = ElementGroup(el)}
    ELSE {el}

\* C9 - Extracting a radio group with no selectedElement marker and no
\* checked child fails with the selection error, also when the radio group
\* is reached through the re-scan of a group extraction (after the reset
\* that every load cycle starts with).
C9_SelectionError ==
    ( /\ ret.op = "extract"
      /\ ret.useGroup /\ ElementGroup(ret.el) # NoGroup
            => rememberedOptions.defined
      /\ \E e \in C9_Scanned(ret.el, ret.useGroup) :
            /\ ElementType(e) = "radiogroup"
            /\ C9_NothingSelected(elements[e]) )
    => ret.status = "SelectionError"

\* a group extraction started on the checkbox has failed with the
\* selection error of the radio group of the same group
C9_Witness ==
    /\ ret.op = "extract" /\ ret.el = "elC" /\ ret.useGroup
    /\ rememberedOptions.defined
    /\ C9_NothingSelected(elements["elR"])
    /\ ret.status = "SelectionError"

----------------------------------------------------------------------------
\* C10 - Tri-state toggle.  Applying null to a checkbox makes it
\* indeterminate; applying any other value sets checked to (value === true);
\* extracting an indeterminate checkbox yields null and extracting any
\* other checkbox yields its checked boolean.
C10_TriState ==
    [][\A el \in Elements :
         ElementType(el) = "checkbox" =>
           /\ \A ov \in LoadedMaps :
                 (ApplyStep(el, ov) /\ Lookup(el, ov).outcome = "written") =>
                    IF Lookup(el, ov).value = Null
                    THEN elements'[el].indeterminate
                    ELSE elements'[el].checked = (Lookup(el, ov).value = True)
           /\ (ret'.op = "extract" /\ ret'.el = el /\ ~ret'.useGroup) =>
                 /\ ret'.status = "ok"
                 /\ ret'.value = IF elements[el].indeterminate THEN Null
                                 ELSE IF elements[el].checked THEN True
                                 ELSE False]_vars

\* null was applied to the checkbox and then extracted from it
C10_Witness ==
    /\ ret.op = "extract" /\ ret.el = "elC" /\ ~ret.useGroup
    /\ elements["elC"].indeterminate
    /\ ret.value = Null

----------------------------------------------------------------------------
\* C11 - Numeric extraction.  A single-widget extraction on a number or
\* range widget whose text is a decimal integer returns the number that
\* text denotes, never the string; on a text widget it returns the text
\* unchanged.
C11_NumericExtraction ==
    ( ret.op = "extract" /\ ~ret.useGroup ) =>
        /\ ( /\ ElementType(ret.el) \in {"number", "range"}
             /\ elements[ret.el].value \in {"str:0", "str:1", "str:2"} )
           => /\ ret.status = "ok"
              /\ ret.value \in {"num:0", "num:1", "num:2"}
              /\ ToDOMString(ret.value) = elements[ret.el].value
        /\ ElementType(ret.el) = "text"
           => /\ ret.status = "ok"
              /\ ret.value = elements[ret.el].value

\* the range widget holds the text "1" and was extracted as the number 1
C11_Witness ==
    /\ ret.op = "extract" /\ ret.el = "elS" /\ ~ret.useGroup
    /\ elements["elS"].value = "str:1"
    /\ ret.value = "num:1"

----------------------------------------------------------------------------
\* C12 - Apply and Extract change nothing but the target widget and the
\* cache; the cache entry is a snapshot, so a group extraction leaves the
\* loaded group map that was passed to the Apply which created the entry
\* as it was, key by key.
C12_FrameSnapshot ==
    [][/\ \A el \in Elements, ov \in LoadedMaps :
             ApplyStep(el, ov) =>
                /\ defaultOptionGetter' = defaultOptionGetter
                /\ \A e \in Elements \ {el} : elements'[e] = elements[e]
       /\ ret'.op = "extract" =>
             /\ defaultOptionGetter' = defaultOptionGetter
             /\ elements' = elements
             /\ \A g \in Groups :
                   Entry(g).present =>
                      PassedGroupObject(rememberedOptions', g) =
                         PassedGroupObject(rememberedOptions, g)]_vars

----------------------------------------------------------------------------
\* C13 - Aggregate freshness.  For every cached group and every member of
\* it that an Apply has written or an extraction has read, the cached
\* aggregate holds the value last applied to or extracted from that member,
\* also when the Apply used another loaded map than the one that created
\* the entry; the other members keep what the cache recorded.
C13_AggregateFreshness ==
    [][\A g \in Groups :
         rememberedOptions'.entries[g].present =>
           /\ \A el \in Elements, ov \in LoadedMaps :
                 ( /\ ApplyStep(el, ov) /\ ElementGroup(el) = g
                   /\ Lookup(el, ov).outcome = "written" )
                 => /\ rememberedOptions'.entries[g].members[ElementName(el)]
                          = Lookup(el, ov).value
                    /\ Entry(g).present =>
                          \A k \in Options \ {ElementName(el)} :
                             rememberedOptions'.entries[g].members[k]
                                = Entry(g).members[k]
           /\ ( /\ ret'.op = "extract" /\ ret'.status = "ok"
                /\ ElementGroup(ret'.el) = g /\ ~ret'.useGroup )
              => rememberedOptions'.entries[g].members[ret'.id] = ret'.value
           /\ ( /\ ret'.op = "extract" /\ ret'.status = "ok"
                /\ ElementGroup(ret'.el) = g /\ ret'.useGroup )
              => \A e \in page :
                    ElementGroup(e) = g =>
                       LET x == getIdAndOptionFromElement(e, elements[e])
                       IN  rememberedOptions'.entries[g].members[x.id] = x.value]_vars

----------------------------------------------------------------------------
\* C14 - After a reset the cache holds an entry for a group only if a call
\* naming that group has run since the reset, and an Apply or an extraction
\* for another group or for an ungrouped option never creates, replaces or
\* removes the entry.
C14_EntryOnlyWhenTouched ==
    /\ [](rememberedOptions.defined =>
             \A g \in Groups : Entry(g).present => g \in appliedGroups)
    /\ [][\A g \in Groups :
            ( /\ ret'.op \in {"apply", "extract"}
              /\ ElementGroup(ret'.el) # g )
            => rememberedOptions'.entries[g] = Entry(g)]_vars

\* on the page with widgets of G and H, an Apply for H has run and created
\* H's entry while G's entry stayed what the earlier Apply for G stored
C14_Witness ==
    /\ page = {"elA", "elC"}
    /\ ret.op = "apply" /\ ret.el = "elC" /\ ret.status = "ok"
    /\ Entry("H").present
    /\ Entry("G").present
    /\ Entry("G").members = Obj("a" :> "num:1" @@ "b" :> "str:x")
    /\ appliedGroups = {"G", "H"}

----------------------------------------------------------------------------
\* C15 - Exclusive-choice Apply.  After an Apply writes value v into a
\* radiogroup, whatever was checked before, the checked children are
\* exactly the children whose value is v (none when no child has value v),
\* and the call raises nothing.
C15_ExclusiveChoiceApply ==
    [][\A el \in Elements, ov \in LoadedMaps :
         ( /\ ApplyStep(el, ov)
           /\ ElementType(el) = "radiogroup"
           /\ Lookup(el, ov).outcome = "written" )
         => /\ ret'.status = "ok"
            /\ \A i \in RadioChilds :
                  elements'[el].childChecked[i]
                     <=> (RadioValue(i) = Lookup(el, ov).value)]_vars

----------------------------------------------------------------------------
\* C16 - Exclusive-choice Extract.  A single-widget extraction on a
\* radiogroup whose wrapper has a selectedElement marker returns the marked
\* child whatever the children's checked attributes are; without a marker
\* it returns the first child with the checked attribute.  The pair
\* returned is that child's name and value, not the wrapper's name.
C16_ExclusiveChoiceExtract ==
    ( /\ ret.op = "extract" /\ ~ret.useGroup
      /\ ElementType(ret.el) = "radiogroup" ) =>
        LET e == elements[ret.el]
            checked == {i \in RadioChilds : e.childChecked[i]}
        IN  /\ e.selectedElement # NoChild =>
                  /\ ret.status = "ok"
                  /\ ret.id = RadioName(e.selectedElement)
                  /\ ret.value = RadioValue(e.selectedElement)
            /\ (e.selectedElement = NoChild /\ checked # {}) =>
                  \E i \in checked :
                      /\ \A j \in checked : i <= j
                      /\ ret.status = "ok"
                      /\ ret.id = RadioName(i)
                      /\ ret.value = RadioValue(i)

\* on the wrapper named u the second child is marked while only the first
\* is checked: the extraction returns the second child's own name r and
\* its value
C16_Witness ==
    /\ ret.op = "extract" /\ ret.el = "elQ" /\ ~ret.useGroup
    /\ elements["elQ"].selectedElement = 2
    /\ elements["elQ"].childChecked = <<TRUE, FALSE>>
    /\ ret.status = "ok"
    /\ ret.id = "r" /\ ret.id # ElementName("elQ")
    /\ ret.value = RadioValue(2)

----------------------------------------------------------------------------
\* C17 - Group extraction covers the whole group.  After a reset, an
\* extraction in group mode on a widget that declares group g, when it
\* returns, returns g with an aggregate that holds the current id/value
\* pair of every live widget of g, not only of the invoking one, whatever
\* the cache held for those ids, and the cached value of every other id; it
\* fails only when a live radiogroup of g has nothing selected.  With
\* useGroup false, or on a widget without a group, it returns the widget's
\* own id and scalar value, is the same whatever the cache is (also before
\* the first reset), and leaves the cache as it was.
C17_OwnPair(el) ==
    LET e == elements[el]
        type == ElementType(el)
    IN  CASE type = "checkbox" ->
                Returned(ElementName(el),
                         IF e.indeterminate THEN Null
                         ELSE IF e.checked THEN True ELSE False)
          [] type = "radiogroup" ->
                IF e.selectedElement = NoChild
                   /\ \A i \in RadioChilds : ~e.childChecked[i]
                THEN Raised("SelectionError")
                ELSE LET i == IF e.selectedElement # NoChild
                              THEN e.selectedElement
                              ELSE CHOOSE i \in RadioChilds :
                                     /\ e.childChecked[i]
                                     /\ \A j \in 1..(i - 1) : ~e.childChecked[j]
                     IN  Returned(RadioName(i), RadioValue(i))
          [] type \in {"number", "range"} ->
                Returned(ElementName(el), ToNumber(e.value))
          [] OTHER -> Returned(ElementName(el), e.value)

C17_GroupExtraction ==
    [][ret'.op = "extract" =>
         LET el == ret'.el
             g == ElementGroup(el)
             live == {w \in page : ElementGroup(w) = g}
         IN  IF ret'.useGroup /\ g # NoGroup
             THEN rememberedOptions.defined =>
                    /\ ret'.status \in {"ok", "SelectionError"}
                    /\ ret'.status = "SelectionError"
                          <=> \E w \in live : C17_OwnPair(w).status # "ok"
                    /\ ret'.status = "ok" =>
                          /\ ret'.id = g
                          /\ el \in live
                          /\ \A w \in live :
                                ret'.agg[C17_OwnPair(w).id] = C17_OwnPair(w).value
                          /\ \A k \in Options \ {C17_OwnPair(w).id : w \in live} :
                                ret'.agg[k] = Entry(g).members[k]
             ELSE /\ ret'.status = C17_OwnPair(el).status
                  /\ ret'.id = C17_OwnPair(el).id
                  /\ ret'.value = C17_OwnPair(el).value
                  /\ ret'.agg = EmptyObj
                  /\ rememberedOptions' = rememberedOptions]_vars

\* invoked on the checkbox of H, the extraction also returns the pair of
\* the radio group, the value y of its marked child
C17_Witness ==
    /\ page = {"elC", "elR"}
    /\ ret.op = "extract" /\ ret.el = "elC" /\ ret.useGroup
    /\ ret.status = "ok" /\ ret.id = "H"
    /\ elements["elR"].selectedElement = 2
    /\ elements["elR"].childChecked = <<TRUE, FALSE>>
    /\ elements["elC"].checked /\ ~elements["elC"].indeterminate
    /\ ret.agg["r"] = "str:y" /\ ret.agg["c"] = True
    /\ Entry("H").present

----------------------------------------------------------------------------
\* C18 - A failed group extraction has no effect.  When an extraction in
\* group mode fails with the selection error, the cache entry of the group
\* is the same after the call as before it: no pair of a widget scanned
\* before the failing one has been written into it.
C18_FailedExtractionNoEffect ==
    [][( /\ ret'.op = "extract" /\ ret'.useGroup
         /\ ElementGroup(ret'.el) # NoGroup
         /\ ret'.status = "SelectionError" )
       => rememberedOptions'.entries[ElementGroup(ret'.el)]
             = Entry(ElementGroup(ret'.el))]_vars
====
